---- MODULE Spec2Model ----
(***************************************************************************)
(* Model of the Cloudflare Worker that gates a Telegram notification       *)
(* behind an optional API key and a Turnstile verification.                *)
(*                                                                         *)
(* Header and environment strings are sequences of one-character strings,  *)
(* so that String.replace, split, trim and charCodeAt are computed the way *)
(* the code computes them.  JSON values (request body, provider replies)   *)
(* are tagged records; their strings are opaque and kept as TLA+ strings.  *)
(***************************************************************************)
EXTENDS Integers, Sequences, FiniteSets, TLC

VARIABLES
  env,          \* the Worker's environment bindings
  request,      \* the inbound request being handled
  pc,           \* where the handler is: idle, verifying, sending, done
  response,     \* the Response returned for the request
  trace,        \* the steps the handler took for the request, in order
  verifyCalls,  \* outbound siteverify calls issued for the request
  sendCalls,    \* outbound sendMessage calls issued for the request
  responses,    \* responses returned for the request
  outbound,     \* the outbound call the handler is awaiting
  verifyReply,  \* how the siteverify call settled
  sendReply,    \* how the sendMessage call settled
  ret           \* the value returned by a function called on its own

vars == <<env, request, pc, response, trace, verifyCalls, sendCalls,
          responses, outbound, verifyReply, sendReply, ret>>

(***************************************************************************)
(* Bounds                                                                  *)
(***************************************************************************)
\* longest API key / header payload drawn for the gate
MaxKeyLen == 2
\* longest ALLOWED_ORIGINS string drawn for the origin computation
MaxOriginsLen == 3

(***************************************************************************)
(* Optional strings: env entries and request.headers.get() results         *)
(***************************************************************************)
None == [some |-> FALSE, v |-> <<>>]

Some(s) == [some |-> TRUE, v |-> s]

\* JS truthiness of an optional string: present and not ""
Truthy(o) == o.some /\ o.v # <<>>

RECURSIVE SeqsUpTo(_, _)
SeqsUpTo(S, n) ==
  IF n = 0 THEN {<<>>}
  ELSE LET shorter == SeqsUpTo(S, n - 1)
       IN shorter \cup {Append(s, c) : s \in shorter, c \in S}

(***************************************************************************)
(* String primitives                                                       *)
(***************************************************************************)
MatchesAt(s, pat, i) ==
  /\ i + Len(pat) - 1 <= Len(s)
  /\ SubSeq(s, i, i + Len(pat) - 1) = pat

\* String.prototype.indexOf, 1-based; 0 when the pattern does not occur
IndexOf(s, pat) ==
  IF \E i \in 1..Len(s) : MatchesAt(s, pat, i)
  THEN CHOOSE i \in 1..Len(s) :
         /\ MatchesAt(s, pat, i)
         /\ \A j \in 1..(i - 1) : ~MatchesAt(s, pat, j)
  ELSE 0

\* String.prototype.replace(pat, "") with a string pattern: first occurrence
Replace(s, pat) ==
  LET i == IndexOf(s, pat)
  IN IF i = 0 THEN s
     ELSE SubSeq(s, 1, i - 1) \o SubSeq(s, i + Len(pat), Len(s))

\* String.prototype.split(",")
RECURSIVE Split(_)
Split(s) ==
  LET i == IndexOf(s, <<",">>)
  IN IF i = 0 THEN <<s>>
     ELSE <<SubSeq(s, 1, i - 1)>> \o Split(SubSeq(s, i + 1, Len(s)))

RECURSIVE TrimStart(_)
TrimStart(s) ==
  IF s # <<>> /\ Head(s) = " " THEN TrimStart(Tail(s)) ELSE s

RECURSIVE TrimEnd(_)
TrimEnd(s) ==
  IF s # <<>> /\ s[Len(s)] = " " THEN TrimEnd(SubSeq(s, 1, Len(s) - 1)) ELSE s

\* String.prototype.trim
Trim(s) == TrimEnd(TrimStart(s))

\* Array.prototype.includes
Includes(arr, x) == \E i \in 1..Len(arr) : arr[i] = x

\* String.prototype.charCodeAt for the characters the model draws
charCodeAt(s, i) ==
  CASE s[i] = " " -> 32
    [] s[i] = "*" -> 42
    [] s[i] = "," -> 44
    [] s[i] = "B" -> 66
    [] s[i] = "a" -> 97
    [] s[i] = "b" -> 98
    [] s[i] = "e" -> 101
    [] s[i] = "r" -> 114

RECURSIVE BitXor(_, _)
BitXor(x, y) ==
  IF x = 0 /\ y = 0 THEN 0
  ELSE (((x % 2) + (y % 2)) % 2) + 2 * BitXor(x \div 2, y \div 2)

RECURSIVE BitOr(_, _)
BitOr(x, y) ==
  IF x = 0 /\ y = 0 THEN 0
  ELSE (IF (x % 2) = 1 \/ (y % 2) = 1 THEN 1 ELSE 0)
       + 2 * BitOr(x \div 2, y \div 2)

(***************************************************************************)
(* middleware/auth: secureCompare and validateApiKey                       *)
(***************************************************************************)
\* the for loop of secureCompare: result |= a.charCodeAt(i) ^ b.charCodeAt(i)
RECURSIVE CompareLoop(_, _, _, _)
CompareLoop(a, b, i, result) ==
  IF i > Len(a) THEN result
  ELSE CompareLoop(a, b, i + 1,
                   BitOr(result, BitXor(charCodeAt(a, i), charCodeAt(b, i))))

secureCompare(a, b) ==
  IF Len(a) # Len(b) THEN FALSE
  ELSE CompareLoop(a, b, 1, 0) = 0

BearerPrefix == <<"B", "e", "a", "r", "e", "r", " ">>

MissingKeyMsg ==
  "Missing API key. Provide via X-API-Key header or Authorization: Bearer <key>"

InvalidKeyMsg == "Invalid API key"

\* a candidate that takes Authorization only when it starts with "Bearer "
CandidateKeyStrictBearer(headers) ==
  IF Truthy(headers.XApiKey) THEN headers.XApiKey
  ELSE IF headers.Authorization.some
          /\ MatchesAt(headers.Authorization.v, BearerPrefix, 1)
       THEN Some(SubSeq(headers.Authorization.v, Len(BearerPrefix) + 1,
                        Len(headers.Authorization.v)))
       ELSE None

\* request.headers.get("X-API-Key") ||
\*   request.headers.get("Authorization")?.replace("Bearer ", "")
CandidateKey(headers) ==
  IF Truthy(headers.XApiKey) THEN headers.XApiKey
  ELSE IF headers.Authorization.some
       THEN Some(Replace(headers.Authorization.v, BearerPrefix))
       ELSE None

\* a gate that reads Authorization only when X-API-Key is absent, and
\* compares nothing: any candidate is accepted
validateApiKeyNoCompare(headers, e) ==
  IF ~Truthy(e.API_KEY) THEN [success |-> TRUE]
  ELSE IF ~Truthy(CandidateKey(headers))
       THEN [success |-> FALSE, error |-> MissingKeyMsg]
       ELSE [success |-> TRUE]

validateApiKey(headers, e) ==
  IF ~Truthy(e.API_KEY) THEN [success |-> TRUE]
  ELSE LET apiKey == CandidateKey(headers)
       IN IF ~Truthy(apiKey)
          THEN [success |-> FALSE, error |-> MissingKeyMsg]
          ELSE IF ~secureCompare(apiKey.v, e.API_KEY.v)
               THEN [success |-> FALSE, error |-> InvalidKeyMsg]
               ELSE [success |-> TRUE]

(***************************************************************************)
(* index: getAllowedOrigin                                                 *)
(***************************************************************************)
Star == <<"*">>

\* env.ALLOWED_ORIGINS?.split(",").map((o) => o.trim()) || ["*"]
AllowedOrigins(e) ==
  IF e.ALLOWED_ORIGINS.some
  THEN LET parts == Split(e.ALLOWED_ORIGINS.v)
       IN [i \in 1..Len(parts) |-> Trim(parts[i])]
  ELSE <<Star>>

\* request.headers.get("Origin") || "*"
RequestOrigin(headers) ==
  IF Truthy(headers.Origin) THEN headers.Origin.v ELSE Star

\* an allowed origin that never echoes the request's Origin
getAllowedOriginNoEcho(headers, e) ==
  LET allowedOrigins == AllowedOrigins(e)
  IN IF Includes(allowedOrigins, Star) THEN Star
     ELSE IF allowedOrigins[1] # <<>> THEN allowedOrigins[1]
     ELSE Star

getAllowedOrigin(headers, e) ==
  LET requestOrigin == RequestOrigin(headers)
      allowedOrigins == AllowedOrigins(e)
  IN IF Includes(allowedOrigins, Star) THEN Star
     ELSE IF Includes(allowedOrigins, requestOrigin) THEN requestOrigin
     ELSE IF allowedOrigins[1] # <<>> THEN allowedOrigins[1]
     ELSE Star

(***************************************************************************)
(* JSON values: the request body and the providers' replies                *)
(***************************************************************************)
JUndef == [t |-> "undefined"]

JNull == [t |-> "null"]

JStr(s) == [t |-> "string", str |-> s]

JNum(n) == [t |-> "number", num |-> n]

JBool(b) == [t |-> "boolean", bool |-> b]

JArr(a) == [t |-> "array", items |-> a]

\* f is a function from property names to JSON values
JObj(f) == [t |-> "object", f |-> f]

\* a string given by its characters, for the strings the formatter reads
JText(s) == [t |-> "string", chars |-> s]

\* an object given by its properties in insertion order, each a record of a
\* key (its characters) and a value
JRec(entries) == [t |-> "object", entries |-> entries]

\* typeof x
TypeOf(x) ==
  CASE x.t = "undefined" -> "undefined"
    [] x.t = "string" -> "string"
    [] x.t = "number" -> "number"
    [] x.t = "boolean" -> "boolean"
    [] OTHER -> "object"

\* property access on null or undefined throws a TypeError
IsNullish(x) == x.t \in {"undefined", "null"}

\* x.k for a non-nullish x: undefined unless x is an object that has k
JGet(x, k) ==
  IF x.t = "object" /\ k \in DOMAIN x.f THEN x.f[k] ELSE JUndef

\* JS truthiness, as tested by !x and ||
JTruthy(x) ==
  CASE x.t = "undefined" -> FALSE
    [] x.t = "null" -> FALSE
    [] x.t = "string" -> IF "chars" \in DOMAIN x THEN x.chars # <<>>
                         ELSE x.str # ""
    [] x.t = "number" -> x.num # 0
    [] x.t = "boolean" -> x.bool
    [] OTHER -> TRUE

TypeErrorMsg == "Cannot read properties of null"

(***************************************************************************)
(* utils/response                                                          *)
(***************************************************************************)
jsonResponse(body, status) ==
  [status |-> status,
   body |-> body,
   headers |-> ("Content-Type" :> "application/json")]

successResponse(message, data) ==
  jsonResponse([success |-> TRUE, message |-> message, data |-> data], 200)

errorResponse(message, status) ==
  jsonResponse([success |-> FALSE, message |-> message, error |-> message],
               status)

CorsHeaderNames ==
  {"Access-Control-Allow-Origin", "Access-Control-Allow-Methods",
   "Access-Control-Allow-Headers", "Access-Control-Max-Age"}

CorsHeaders(origin) ==
  ("Access-Control-Allow-Origin" :> origin)
  @@ ("Access-Control-Allow-Methods" :> "GET, POST, OPTIONS")
  @@ ("Access-Control-Allow-Headers" :> "Content-Type, X-API-Key, Authorization")
  @@ ("Access-Control-Max-Age" :> "86400")

\* headers.set overrides; status and body are copied
withCors(resp, origin) ==
  [status |-> resp.status,
   body |-> resp.body,
   headers |-> CorsHeaders(origin) @@ resp.headers]

\* new Response(null, ...): a response without a body
NoBody == [empty |-> TRUE]

IsEnvelope(b) == "success" \in DOMAIN b

(***************************************************************************)
(* middleware/turnstile                                                    *)
(***************************************************************************)
KnownErrorCodes ==
  {"missing-input-secret", "invalid-input-secret", "missing-input-response",
   "invalid-input-response", "invalid-widget-id", "invalid-parsed-secret",
   "bad-request", "timeout-or-duplicate", "internal-error"}

ERROR_CODES(code) ==
  CASE code = "missing-input-secret" -> "The secret parameter was not passed"
    [] code = "invalid-input-secret" ->
         "The secret parameter was invalid or did not exist"
    [] code = "missing-input-response" -> "The response parameter was not passed"
    [] code = "invalid-input-response" ->
         "The response parameter is invalid or has expired"
    [] code = "invalid-widget-id" ->
         "The widget ID extracted from the parsed site secret key was invalid"
    [] code = "invalid-parsed-secret" ->
         "The secret extracted from the parsed site secret key was invalid"
    [] code = "bad-request" -> "The request was rejected because it was malformed"
    [] code = "timeout-or-duplicate" ->
         "The response parameter has already been validated before"
    [] code = "internal-error" ->
         "An internal error happened while validating the response"

\* a lookup that keeps every code as it came
DescribeCodeVerbatim(code) == code

\* ERROR_CODES[code] || code
DescribeCode(code) ==
  IF code \in KnownErrorCodes THEN ERROR_CODES(code) ELSE code

\* Array.prototype.join("; ")
RECURSIVE JoinSemi(_)
JoinSemi(parts) ==
  IF Len(parts) = 0 THEN ""
  ELSE IF Len(parts) = 1 THEN parts[1]
  ELSE parts[1] \o "; " \o JoinSemi(Tail(parts))

\* codes is data['error-codes']: undefined or an array of strings
getErrorMessage(codes) ==
  IF ~JTruthy(codes) \/ Len(codes.items) = 0 THEN "Unknown verification error"
  ELSE JoinSemi([i \in 1..Len(codes.items) |-> DescribeCode(codes.items[i])])

\* a verifier that posts to siteverify without its two checks
TurnstilePrecheckNone(token, e) == [call |-> TRUE]

\* the two checks of verifyTurnstile made before any outbound call
TurnstilePrecheck(token, e) ==
  IF ~Truthy(e.TURNSTILE_SECRET_KEY)
  THEN [call |-> FALSE,
        result |-> [success |-> FALSE,
                    error |-> "Turnstile secret key not configured"]]
  ELSE IF ~JTruthy(token)
  THEN [call |-> FALSE,
        result |-> [success |-> FALSE, error |-> "Missing Turnstile token"]]
  ELSE [call |-> TRUE]

\* the form posted to the siteverify endpoint
TurnstileForm(token, e, remoteIp) ==
  [url |-> "https://challenges.cloudflare.com/turnstile/v0/siteverify",
   secret |-> e.TURNSTILE_SECRET_KEY.v,
   response |-> token,
   remoteip |-> IF Truthy(remoteIp) THEN remoteIp ELSE None]

\* the catch block: error instanceof Error ? error.message : fallback
CaughtMessage(outcome, fallback) ==
  IF outcome.isError THEN outcome.message ELSE fallback

\* verifyTurnstile after its fetch settled.  outcome is a thrown value (fetch
\* rejected or response.json() threw) or the JSON value of the reply
TurnstileResult(outcome) ==
  IF outcome.kind = "throw"
  THEN [success |-> FALSE,
        error |-> CaughtMessage(outcome, "Failed to verify Turnstile token")]
  ELSE IF IsNullish(outcome.data)
  THEN [success |-> FALSE, error |-> TypeErrorMsg]
  ELSE IF ~JTruthy(JGet(outcome.data, "success"))
  THEN [success |-> FALSE,
        error |-> getErrorMessage(JGet(outcome.data, "error-codes")),
        details |-> outcome.data]
  ELSE [success |-> TRUE, details |-> outcome.data]

(***************************************************************************)
(* actions/telegram                                                        *)
(***************************************************************************)
\* TelegramAction.validate: Boolean(this.botToken && this.chatId)
validate(botToken, chatId) == Truthy(botToken) /\ Truthy(chatId)

\* String.prototype.replace(/c/g, rep) for a one-character pattern
RECURSIVE ReplaceAll(_, _, _)
ReplaceAll(s, c, rep) ==
  IF s = <<>> THEN <<>>
  ELSE (IF Head(s) = c THEN rep ELSE <<Head(s)>>) \o ReplaceAll(Tail(s), c, rep)

\* an escape that replaces & last, so that the & of "&lt;" and "&gt;" is
\* escaped once more
escapeHtmlAmpLast(text) ==
  ReplaceAll(ReplaceAll(ReplaceAll(text, "<", <<"&", "l", "t", ";">>),
                        ">", <<"&", "g", "t", ";">>),
             "&", <<"&", "a", "m", "p", ";">>)

\* TelegramAction.escapeHtml: & first, then <, then >
escapeHtml(text) ==
  ReplaceAll(ReplaceAll(ReplaceAll(text, "&", <<"&", "a", "m", "p", ";">>),
                        "<", <<"&", "l", "t", ";">>),
             ">", <<"&", "g", "t", ";">>)

Digits == <<"0", "1", "2", "3", "4", "5", "6", "7", "8", "9">>

\* String(n) for an integer n
RECURSIVE NumberToString(_)
NumberToString(n) ==
  IF n < 0 THEN <<"-">> \o NumberToString(0 - n)
  ELSE IF n < 10 THEN <<Digits[n + 1]>>
  ELSE NumberToString(n \div 10) \o <<Digits[(n % 10) + 1]>>

\* String(b) for a boolean b
BooleanToString(b) ==
  IF b THEN <<"t", "r", "u", "e">> ELSE <<"f", "a", "l", "s", "e">>

\* Array.prototype.join(sep) on strings
RECURSIVE Join(_, _)
Join(parts, sep) ==
  IF parts = <<>> THEN <<>>
  ELSE IF Len(parts) = 1 THEN parts[1]
  ELSE parts[1] \o sep \o Join(Tail(parts), sep)

\* Object.entries: the own properties in insertion order; the indices of an
\* array
ObjectEntries(x) ==
  IF x.t = "array"
  THEN [i \in 1..Len(x.items) |->
          [key |-> NumberToString(i - 1), value |-> x.items[i]]]
  ELSE x.entries

\* JSON.stringify of a value whose strings hold no quote, backslash or
\* control character; undefined array items become null, undefined
\* properties are left out
RECURSIVE JsonStringify(_)
JsonStringify(x) ==
  CASE x.t = "null" -> <<"n", "u", "l", "l">>
    [] x.t = "undefined" -> <<"n", "u", "l", "l">>
    [] x.t = "number" -> NumberToString(x.num)
    [] x.t = "boolean" -> BooleanToString(x.bool)
    [] x.t = "string" -> <<"\"">> \o x.chars \o <<"\"">>
    [] x.t = "array" ->
         <<"[">> \o Join([i \in 1..Len(x.items) |-> JsonStringify(x.items[i])],
                         <<",">>) \o <<"]">>
    [] OTHER ->
         LET own == SelectSeq(x.entries, LAMBDA en : en.value.t # "undefined")
         IN <<"{">>
            \o Join([i \in 1..Len(own) |->
                       <<"\"">> \o own[i].key \o <<"\"", ":">>
                       \o JsonStringify(own[i].value)],
                    <<",">>)
            \o <<"}">>

BoldOpen == <<"<", "b", ">">>

BoldClose == <<"<", "/", "b", ">">>

\* formatMessage, "Handle subject"
SubjectFields(subject) ==
  IF JTruthy(subject) /\ TypeOf(subject) = "string" /\ Trim(subject.chars) # <<>>
  THEN <<BoldOpen \o escapeHtml(Trim(subject.chars)) \o BoldClose>>
  ELSE <<>>

\* formatMessage, "Handle message"
MessageFields(message) ==
  IF JTruthy(message) /\ TypeOf(message) = "string" /\ Trim(message.chars) # <<>>
  THEN <<escapeHtml(Trim(message.chars))>>
  ELSE <<>>

\* formatMessage, the body of the loop over the metadata up to "if (str)"
MetadataValueString(value) ==
  IF TypeOf(value) = "string" THEN escapeHtml(Trim(value.chars))
  ELSE IF TypeOf(value) = "number" THEN escapeHtml(NumberToString(value.num))
  ELSE IF TypeOf(value) = "boolean" THEN escapeHtml(BooleanToString(value.bool))
  ELSE IF ~IsNullish(value) THEN escapeHtml(JsonStringify(value))
  ELSE <<>>

\* formatMessage, the loop over Object.entries(payload.metadata)
RECURSIVE MetadataFields(_)
MetadataFields(entries) ==
  IF entries = <<>> THEN <<>>
  ELSE LET str == MetadataValueString(entries[1].value)
       IN (IF str # <<>>
           THEN <<BoldOpen \o escapeHtml(entries[1].key)
                  \o <<":">> \o BoldClose \o <<" ">> \o str>>
           ELSE <<>>)
          \o MetadataFields(Tail(entries))

\* TelegramAction.formatMessage
formatMessage(payload) ==
  Join(SubjectFields(payload.subject)
       \o MessageFields(payload.message)
       \o (IF JTruthy(payload.metadata) /\ TypeOf(payload.metadata) = "object"
           THEN MetadataFields(ObjectEntries(payload.metadata))
           ELSE <<>>),
       <<"\n">>)

\* the request posted to the Bot API
TelegramRequest(botToken, chatId, payload) ==
  [url |-> <<"https://api.telegram.org/bot", botToken.v, "/sendMessage">>,
   chat_id |-> chatId.v,
   text |-> formatMessage(payload),
   parse_mode |-> "HTML",
   disable_web_page_preview |-> TRUE]

\* a sender that looks at the provider's ok field only, not at the HTTP status
ExecuteResultIgnoresStatus(outcome) ==
  IF outcome.kind = "throw"
  THEN [success |-> FALSE,
        message |-> CaughtMessage(outcome, "Unknown error occurred")]
  ELSE IF IsNullish(outcome.data)
  THEN [success |-> FALSE, message |-> TypeErrorMsg]
  ELSE IF ~JTruthy(JGet(outcome.data, "ok"))
  THEN [success |-> FALSE,
        message |-> IF JTruthy(JGet(outcome.data, "description"))
                    THEN JGet(outcome.data, "description").str
                    ELSE "Failed to send Telegram message",
        data |-> outcome.data]
  ELSE [success |-> TRUE,
        message |-> "Notification sent successfully",
        data |-> JGet(outcome.data, "result")]

\* execute after its fetch settled.  outcome is a thrown value (fetch rejected
\* or response.json() threw) or the reply's response.ok and JSON value
ExecuteResult(outcome) ==
  IF outcome.kind = "throw"
  THEN [success |-> FALSE,
        message |-> CaughtMessage(outcome, "Unknown error occurred")]
  ELSE IF IsNullish(outcome.data)
  THEN [success |-> FALSE, message |-> TypeErrorMsg]
  ELSE IF ~outcome.ok \/ ~JTruthy(JGet(outcome.data, "ok"))
  THEN [success |-> FALSE,
        message |-> IF JTruthy(JGet(outcome.data, "description"))
                    THEN JGet(outcome.data, "description").str
                    ELSE "Failed to send Telegram message",
        data |-> outcome.data]
  ELSE [success |-> TRUE,
        message |-> "Notification sent successfully",
        data |-> JGet(outcome.data, "result")]

\* the guard at the top of execute, before its fetch
ExecutePrecheck(botToken, chatId) ==
  IF ~validate(botToken, chatId)
  THEN [call |-> FALSE,
        result |-> [success |-> FALSE,
                    message |-> "Telegram action is not properly configured"]]
  ELSE [call |-> TRUE]

(***************************************************************************)
(* index: the handlers.  A handler runs until it returns a Response,       *)
(* throws, or awaits an outbound call.                                     *)
(***************************************************************************)
Return(resp, events) == [kind |-> "return", response |-> resp, events |-> events]

Throw(events) == [kind |-> "throw", events |-> events]

Await(on, call, events) ==
  [kind |-> "await", on |-> on, call |-> call, events |-> events]

handleOptions(req, e) ==
  [status |-> 204,
   body |-> NoBody,
   headers |-> CorsHeaders(getAllowedOrigin(req.headers, e))]

\* a health report that counts the sender as configured once either of its
\* two credentials is bound
handleHealthCheckEitherCredential(e, now) ==
  successResponse("Service is healthy",
    [status |-> "healthy",
     timestamp |-> now,
     config |-> [turnstile |-> Truthy(e.TURNSTILE_SECRET_KEY),
                 telegram |-> Truthy(e.TELEGRAM_BOT_TOKEN)
                              \/ Truthy(e.TELEGRAM_CHAT_ID),
                 apiKeyRequired |-> Truthy(e.API_KEY)]])

handleHealthCheck(e, now) ==
  successResponse("Service is healthy",
    [status |-> "healthy",
     timestamp |-> now,
     config |-> [turnstile |-> Truthy(e.TURNSTILE_SECRET_KEY),
                 telegram |-> Truthy(e.TELEGRAM_BOT_TOKEN)
                              /\ Truthy(e.TELEGRAM_CHAT_ID),
                 apiKeyRequired |-> Truthy(e.API_KEY)]])

\* a || b on strings
OrElse(a, b) == IF a # "" THEN a ELSE b

\* a handler that reports success whatever the action returned
AfterSendAlwaysOk(result) ==
  Return(successResponse(result.message, JUndef), <<"send_ok">>)

\* handleNotification from "const result = await action.execute(payload)" on
AfterSend(result) ==
  IF ~result.success
  THEN Return(errorResponse(result.message, 500), <<"send_fail">>)
  ELSE Return(successResponse(result.message, JUndef), <<"send_ok">>)

\* a handler that never looks at the verification result
VerificationFailedNever(turnstileResult) == FALSE

\* if (!turnstileResult.success) return errorResponse(..., 403)
VerificationFailed(turnstileResult) == ~turnstileResult.success

\* if (!action.validate()) return errorResponse(..., 500)
ActionMisconfigured(e) == ~validate(e.TELEGRAM_BOT_TOKEN, e.TELEGRAM_CHAT_ID)

\* handleNotification from "if (!turnstileResult.success)" to the send
AfterVerify(turnstileResult, req, e) ==
  IF VerificationFailed(turnstileResult)
  THEN Return(errorResponse(OrElse(turnstileResult.error,
                                   "Turnstile verification failed"), 403),
              <<"verify_fail">>)
  ELSE IF ActionMisconfigured(e)
  THEN Return(errorResponse("Telegram action not properly configured", 500),
              <<"verify_ok", "validate_fail">>)
  ELSE LET pre == ExecutePrecheck(e.TELEGRAM_BOT_TOKEN, e.TELEGRAM_CHAT_ID)
           payload == [message |-> JGet(req.body.json, "message"),
                       subject |-> JGet(req.body.json, "subject"),
                       metadata |-> JGet(req.body.json, "metadata")]
       IN IF ~pre.call
          THEN LET r == AfterSend(pre.result)
               IN [r EXCEPT !.events = <<"verify_ok", "validate_ok">> \o @]
          ELSE Await("sending",
                     TelegramRequest(e.TELEGRAM_BOT_TOKEN, e.TELEGRAM_CHAT_ID,
                                     payload),
                     <<"verify_ok", "validate_ok", "send_call">>)

\* if (!authResult.success) return errorResponse(..., 401)
GateFailed(authResult) == ~authResult.success

\* a handler that checks the sender's configuration before it calls the
\* verifier
handleNotificationSenderFirst(req, e) ==
  LET authResult == validateApiKey(req.headers, e)
  IN IF GateFailed(authResult)
     THEN Return(errorResponse(OrElse(authResult.error, "Authentication failed"),
                               401),
                 <<"gate_fail">>)
     ELSE IF ~req.body.parses
     THEN Return(errorResponse("Invalid JSON body", 400),
                 <<"gate_ok", "body_fail">>)
     ELSE LET body == req.body.json
          IN IF IsNullish(body)
             THEN Throw(<<"gate_ok", "body_throw">>)
             ELSE IF ~JTruthy(JGet(body, "turnstile_token"))
             THEN Return(errorResponse("Missing required field: turnstile_token",
                                       400),
                         <<"gate_ok", "body_fail">>)
             ELSE IF ~JTruthy(JGet(body, "message"))
             THEN Return(errorResponse("Missing required field: message", 400),
                         <<"gate_ok", "body_fail">>)
             ELSE IF ActionMisconfigured(e)
             THEN Return(errorResponse("Telegram action not properly configured",
                                       500),
                         <<"gate_ok", "body_ok", "validate_fail">>)
             ELSE LET token == JGet(body, "turnstile_token")
                      pre == TurnstilePrecheck(token, e)
                  IN IF ~pre.call
                     THEN LET r == AfterVerify(pre.result, req, e)
                          IN [r EXCEPT !.events = <<"gate_ok", "body_ok">> \o @]
                     ELSE Await("verifying",
                                TurnstileForm(token, e,
                                              req.headers.CFConnectingIP),
                                <<"gate_ok", "body_ok", "verify_call">>)

\* handleNotification up to its first outbound call
handleNotification(req, e) ==
  LET authResult == validateApiKey(req.headers, e)
  IN IF GateFailed(authResult)
     THEN Return(errorResponse(OrElse(authResult.error, "Authentication failed"),
                               401),
                 <<"gate_fail">>)
     ELSE IF ~req.body.parses
     THEN Return(errorResponse("Invalid JSON body", 400),
                 <<"gate_ok", "body_fail">>)
     ELSE LET body == req.body.json
          IN IF IsNullish(body)
             THEN Throw(<<"gate_ok", "body_throw">>)
             ELSE IF ~JTruthy(JGet(body, "turnstile_token"))
             THEN Return(errorResponse("Missing required field: turnstile_token",
                                       400),
                         <<"gate_ok", "body_fail">>)
             ELSE IF ~JTruthy(JGet(body, "message"))
             THEN Return(errorResponse("Missing required field: message", 400),
                         <<"gate_ok", "body_fail">>)
             ELSE LET token == JGet(body, "turnstile_token")
                      pre == TurnstilePrecheck(token, e)
                  IN IF ~pre.call
                     THEN LET r == AfterVerify(pre.result, req, e)
                          IN [r EXCEPT !.events = <<"gate_ok", "body_ok">> \o @]
                     ELSE Await("verifying",
                                TurnstileForm(token, e,
                                              req.headers.CFConnectingIP),
                                <<"gate_ok", "body_ok", "verify_call">>)

NotifyPaths == {"/notify", "/api/notify"}

HealthPaths == {"/", "/health"}

\* "// Add CORS headers": the last two lines of handleRequest
AddCors(r, req, e) ==
  IF r.kind = "return"
  THEN [r EXCEPT !.response = withCors(@, getAllowedOrigin(req.headers, e))]
  ELSE r

\* the switch of handleRequest
Route(req, e, now) ==
  IF req.path \in HealthPaths
  THEN Return(handleHealthCheck(e, now), <<"health">>)
  ELSE IF req.path \in NotifyPaths
  THEN IF req.method # "POST"
       THEN Return(errorResponse("Method not allowed. Use POST.", 405),
                   <<"method_not_allowed">>)
       ELSE handleNotification(req, e)
  ELSE Return(errorResponse("Not found", 404), <<"not_found">>)

\* a router without the preflight short-circuit
handleRequestNoPreflight(req, e, now) == AddCors(Route(req, e, now), req, e)

handleRequest(req, e, now) ==
  IF req.method = "OPTIONS"
  THEN Return(handleOptions(req, e), <<"preflight">>)
  ELSE AddCors(Route(req, e, now), req, e)

\* an entry point without the catch-all: the runtime answers a thrown
\* exception with its own error page
CatchNothing(r) ==
  IF r.kind = "throw"
  THEN Return([status |-> 500, body |-> NoBody,
               headers |-> ("Content-Type" :> "text/plain")],
              r.events \o <<"uncaught">>)
  ELSE r

\* the try/catch of the Worker's fetch entry point
Catch(r) ==
  IF r.kind = "throw"
  THEN Return(errorResponse("Internal server error", 500),
              r.events \o <<"caught">>)
  ELSE r

(***************************************************************************)
(* Inputs                                                                  *)
(***************************************************************************)
Methods == {"OPTIONS", "GET", "PUT", "POST"}

Paths == {"/", "/health", "/notify", "/api/notify", "/unknown"}

Timestamps == {"2024-12-10T12:00:00.000Z", "2024-12-10T12:00:01.000Z"}

\* request.json() rejects: the body is empty or not JSON
Unparseable == [parses |-> FALSE, json |-> JNull]

Parsed(x) == [parses |-> TRUE, json |-> x]

TokenValues == {JUndef, JNull, JStr(""), JNum(0), JStr("tok")}

MessageValues == {JUndef, JText(<<>>), JText(<<"h", "i", " ", "<">>)}

BodyObjects ==
  {JObj(f) : f \in
     {[k \in {"turnstile_token", "message"} |->
         IF k = "turnstile_token" THEN t ELSE m] :
        t \in TokenValues \ {JUndef}, m \in MessageValues \ {JUndef}}
     \cup {("turnstile_token" :> t) : t \in TokenValues \ {JUndef}}
     \cup {("message" :> m) : m \in MessageValues \ {JUndef}}
     \cup {<<>>}}

Bodies ==
  {Unparseable} \cup {Parsed(x) : x \in {JNull, JNum(5), JStr("text")} \cup BodyObjects}

Headers(xApiKeys, authorizations, origins, ips) ==
  [XApiKey : xApiKeys, Authorization : authorizations, Origin : origins,
   CFConnectingIP : ips]

Requests ==
  {r \in [method : Methods,
          path : Paths,
          headers : Headers({None, Some(<<"a">>), Some(<<"b">>)},
                            {None, Some(BearerPrefix \o <<"a">>)},
                            {None, Some(<<"a">>)},
                            {None, Some(<<"1">>)}),
          body : Bodies] :
     r.method # "POST" => r.body = Unparseable}

Envs ==
  [API_KEY : {None, Some(<<"a">>)},
   TURNSTILE_SECRET_KEY : {None, Some(<<"s">>)},
   TELEGRAM_BOT_TOKEN : {None, Some(<<"t">>)},
   TELEGRAM_CHAT_ID : {None, Some(<<"c">>)},
   ALLOWED_ORIGINS : {None, Some(<<"a">>)}]

Thrown == {[kind |-> "throw", isError |-> TRUE, message |-> "fetch failed"],
           [kind |-> "throw", isError |-> FALSE, message |-> ""]}

\* how the siteverify call can settle
TurnstileOutcomes ==
  Thrown \cup
  {[kind |-> "json", data |-> d] : d \in
     {JNull,
      JObj("success" :> JBool(TRUE)),
      JObj("success" :> JBool(FALSE)),
      JObj(("success" :> JBool(FALSE)) @@ ("error-codes" :> JArr(<<>>))),
      JObj(("success" :> JBool(FALSE))
           @@ ("error-codes" :> JArr(<<"invalid-input-response">>))),
      JObj(("success" :> JBool(FALSE))
           @@ ("error-codes" :> JArr(<<"timeout-or-duplicate", "x-unknown">>))),
      JObj(<<>>)}}

\* how the sendMessage call can settle
TelegramOutcomes ==
  Thrown \cup
  {[kind |-> "reply", ok |-> ok, data |-> d] :
     ok \in BOOLEAN,
     d \in {JNull,
            JObj(("ok" :> JBool(TRUE)) @@ ("result" :> JNum(1))),
            JObj(("ok" :> JBool(FALSE))
                 @@ ("description" :> JStr("Bad Request: chat not found"))),
            JObj("ok" :> JBool(FALSE)),
            JObj(<<>>)}}

NoResponse == [status |-> 0, body |-> NoBody, headers |-> <<>>]

NoCall == [url |-> "none"]

NoReply == [kind |-> "none"]

NoRet == [kind |-> "none"]

(***************************************************************************)
(* The Worker handling one inbound request.  Nothing is shared between     *)
(* requests, so a behaviour is the handling of the request that is in      *)
(* flight in its first state.                                              *)
(***************************************************************************)
Init ==
  /\ env \in Envs
  /\ request \in Requests
  /\ pc = "idle"
  /\ response = NoResponse
  /\ trace = <<>>
  /\ verifyCalls = 0
  /\ sendCalls = 0
  /\ responses = 0
  /\ outbound = NoCall
  /\ verifyReply = NoReply
  /\ sendReply = NoReply
  /\ ret = NoRet

\* the handler ran to r: it returned a Response or awaits an outbound call
Settle(r, tr, vc, sc) ==
  /\ trace' = tr \o r.events
  /\ verifyCalls' = vc + (IF r.kind = "await" /\ r.on = "verifying" THEN 1 ELSE 0)
  /\ sendCalls' = sc + (IF r.kind = "await" /\ r.on = "sending" THEN 1 ELSE 0)
  /\ IF r.kind = "await"
     THEN /\ pc' = r.on
          /\ outbound' = r.call
          /\ response' = NoResponse
          /\ responses' = 0
     ELSE /\ pc' = "done"
          /\ outbound' = NoCall
          /\ response' = r.response
          /\ responses' = 1

\* fetch(request, env): the request is handled up to the first await
Fetch ==
  /\ pc = "idle"
  /\ \E now \in Timestamps :
       Settle(Catch(handleRequest(request, env, now)), <<>>, 0, 0)
  /\ UNCHANGED <<env, request, verifyReply, sendReply, ret>>

\* the siteverify call settles and the handler resumes
TurnstileReply ==
  /\ pc = "verifying"
  /\ \E o \in TurnstileOutcomes :
       /\ verifyReply' = o
       /\ ret' = TurnstileResult(o)
       /\ Settle(Catch(AddCors(AfterVerify(TurnstileResult(o), request, env),
                               request, env)),
                 trace, verifyCalls, sendCalls)
  /\ UNCHANGED <<env, request, sendReply>>

\* the sendMessage call settles and the handler resumes
TelegramReply ==
  /\ pc = "sending"
  /\ \E o \in TelegramOutcomes :
       /\ sendReply' = o
       /\ ret' = ExecuteResult(o)
       /\ Settle(Catch(AddCors(AfterSend(ExecuteResult(o)), request, env)),
                 trace, verifyCalls, sendCalls)
  /\ UNCHANGED <<env, request, verifyReply>>

Next == Fetch \/ TurnstileReply \/ TelegramReply

Spec == Init /\ [][Next]_vars

\* the requests and environments that differ in how the handler proceeds:
\* the Origin, CF-Connecting-IP and Authorization headers and the allow-list
\* are left out
InitFair ==
  /\ Init
  /\ env.ALLOWED_ORIGINS = None
  /\ request.headers.Origin = None
  /\ request.headers.CFConnectingIP = None
  /\ request.headers.Authorization = None

\* the handler is scheduled, and an awaited outbound call settles
FairSpec ==
  /\ InitFair
  /\ [][Next]_vars
  /\ WF_vars(Fetch)
  /\ WF_vars(TurnstileReply)
  /\ WF_vars(TelegramReply)

(***************************************************************************)
(* validateApiKey called on its own, over every key and header combination *)
(***************************************************************************)
KeyStrings == SeqsUpTo({"a", "b"}, MaxKeyLen)

\* at most one character ahead of "Bearer "
KeyPrefixes == {k \in KeyStrings : Len(k) <= 1}

\* absent, a bare value, "Bearer " inside a value, "Bearer " twice
GateAuthorizations ==
  {None} \cup {Some(k) : k \in KeyStrings}
         \cup {Some(k1 \o BearerPrefix \o k2) : k1 \in KeyPrefixes, k2 \in KeyStrings}
         \cup {Some(BearerPrefix \o BearerPrefix \o k) : k \in KeyStrings}

GateHeaders ==
  Headers({None} \cup {Some(k) : k \in KeyStrings},
          GateAuthorizations,
          {None},
          {None})

Idle ==
  /\ pc = "idle"
  /\ response = NoResponse
  /\ trace = <<>>
  /\ verifyCalls = 0
  /\ sendCalls = 0
  /\ responses = 0
  /\ outbound = NoCall
  /\ verifyReply = NoReply
  /\ sendReply = NoReply
  /\ ret = NoRet

NoEnv ==
  [API_KEY |-> None, TURNSTILE_SECRET_KEY |-> None, TELEGRAM_BOT_TOKEN |-> None,
   TELEGRAM_CHAT_ID |-> None, ALLOWED_ORIGINS |-> None]

InitGate ==
  /\ env \in {[NoEnv EXCEPT !.API_KEY = k] :
               k \in {None} \cup {Some(s) : s \in KeyStrings}}
  /\ request \in [method : {"POST"}, path : {"/notify"}, headers : GateHeaders,
                  body : {Unparseable}]
  /\ Idle

CallValidateApiKey ==
  /\ pc = "idle"
  /\ pc' = "returned"
  /\ ret' = validateApiKey(request.headers, env)
  /\ UNCHANGED <<env, request, response, trace, verifyCalls, sendCalls,
                 responses, outbound, verifyReply, sendReply>>

NextGate == CallValidateApiKey

SpecGate == InitGate /\ [][NextGate]_vars

(***************************************************************************)
(* secureCompare(apiKey, env.API_KEY) run statement by statement: ret      *)
(* holds its locals i and result, trace the positions whose characters     *)
(* were read                                                               *)
(***************************************************************************)
\* a loop body that stops the loop at the first mismatch
CompareStepEarlyExit(a, b, locals) ==
  IF a[locals.i + 1] # b[locals.i + 1]
  THEN [kind |-> "locals", i |-> Len(a), result |-> 1]
  ELSE [kind |-> "locals", i |-> locals.i + 1, result |-> locals.result]

\* result |= a.charCodeAt(i) ^ b.charCodeAt(i); i++
CompareStep(a, b, locals) ==
  [kind |-> "locals",
   i |-> locals.i + 1,
   result |-> BitOr(locals.result,
                    BitXor(charCodeAt(a, locals.i + 1),
                           charCodeAt(b, locals.i + 1)))]

CompareA == request.headers.XApiKey.v

CompareB == env.API_KEY.v

InitCompare ==
  /\ env \in {[NoEnv EXCEPT !.API_KEY = Some(s)] : s \in KeyStrings}
  /\ request \in [method : {"POST"}, path : {"/notify"},
                  headers : Headers({Some(k) : k \in KeyStrings},
                                    {None}, {None}, {None}),
                  body : {Unparseable}]
  /\ Idle

\* if (a.length !== b.length) return false; let result = 0; i = 0
CompareEnter ==
  /\ pc = "idle"
  /\ IF Len(CompareA) # Len(CompareB)
     THEN /\ pc' = "returned"
          /\ ret' = [kind |-> "value", value |-> FALSE]
     ELSE /\ pc' = "loop"
          /\ ret' = [kind |-> "locals", i |-> 0, result |-> 0]
  /\ UNCHANGED <<env, request, response, trace, verifyCalls, sendCalls,
                 responses, outbound, verifyReply, sendReply>>

\* one iteration of the for loop
CompareIterate ==
  /\ pc = "loop"
  /\ ret.i < Len(CompareA)
  /\ ret' = CompareStep(CompareA, CompareB, ret)
  /\ trace' = Append(trace, ret.i)
  /\ UNCHANGED <<env, request, pc, response, verifyCalls, sendCalls,
                 responses, outbound, verifyReply, sendReply>>

\* the loop is left: return result === 0
CompareExit ==
  /\ pc = "loop"
  /\ ret.i >= Len(CompareA)
  /\ pc' = "returned"
  /\ ret' = [kind |-> "value", value |-> (ret.result = 0)]
  /\ UNCHANGED <<env, request, response, trace, verifyCalls, sendCalls,
                 responses, outbound, verifyReply, sendReply>>

NextCompare == CompareEnter \/ CompareIterate \/ CompareExit

SpecCompare == InitCompare /\ [][NextCompare]_vars

(***************************************************************************)
(* getAllowedOrigin called on its own, over every allow-list and Origin    *)
(***************************************************************************)
OriginsStrings == SeqsUpTo({"a", "b", "*", ",", " "}, MaxOriginsLen)

OriginHeaders ==
  Headers({None},
          {None},
          {None, Some(<<>>), Some(<<"a">>), Some(<<"b">>), Some(Star)},
          {None})

InitOrigin ==
  /\ env \in {[NoEnv EXCEPT !.ALLOWED_ORIGINS = o] :
               o \in {None} \cup {Some(s) : s \in OriginsStrings}}
  /\ request \in [method : {"GET"}, path : {"/"}, headers : OriginHeaders,
                  body : {Unparseable}]
  /\ Idle

CallGetAllowedOrigin ==
  /\ pc = "idle"
  /\ pc' = "returned"
  /\ ret' = getAllowedOrigin(request.headers, env)
  /\ UNCHANGED <<env, request, response, trace, verifyCalls, sendCalls,
                 responses, outbound, verifyReply, sendReply>>

NextOrigin == CallGetAllowedOrigin

SpecOrigin == InitOrigin /\ [][NextOrigin]_vars

(***************************************************************************)
(* handleHealthCheck called on its own, over every binding of the four     *)
(* credentials: unbound, bound to the empty string, bound to one of two    *)
(* values                                                                  *)
(***************************************************************************)
CredentialBindings == {None, Some(<<>>), Some(<<"x">>), Some(<<"y">>)}

HealthEnvs ==
  [API_KEY : CredentialBindings,
   TURNSTILE_SECRET_KEY : CredentialBindings,
   TELEGRAM_BOT_TOKEN : CredentialBindings,
   TELEGRAM_CHAT_ID : CredentialBindings,
   ALLOWED_ORIGINS : {None}]

InitHealth ==
  /\ env \in HealthEnvs
  /\ request \in [method : {"GET"}, path : {"/health"},
                  headers : Headers({None}, {None}, {None}, {None}),
                  body : {Unparseable}]
  /\ Idle

CallHandleHealthCheck ==
  /\ pc = "idle"
  /\ pc' = "returned"
  /\ \E now \in Timestamps : ret' = handleHealthCheck(env, now)
  /\ UNCHANGED <<env, request, response, trace, verifyCalls, sendCalls,
                 responses, outbound, verifyReply, sendReply>>

NextHealth == CallHandleHealthCheck

SpecHealth == InitHealth /\ [][NextHealth]_vars

(***************************************************************************)
(* formatMessage called on its own.  The payloads vary one part at a time: *)
(* the subject, the message, or the metadata, next to fixed other parts.   *)
(***************************************************************************)
\* longest subject or message drawn for the formatter
MaxTextLen == 2
\* most metadata entries drawn for the formatter
MaxEntries == 2

FormatChars == {"a", " ", "&", "<", ">"}

Texts == {JText(s) : s \in SeqsUpTo(FormatChars, MaxTextLen)}

MetaKeys == {<<"a">>, <<"b">>, <<"<">>}

MetaValues ==
  {JNull, JUndef, JNum(0), JNum(12), JBool(FALSE), JText(<<>>), JText(<<" ">>),
   JText(<<" ", "<", " ">>),
   JArr(<<JNum(1), JText(<<"&">>)>>),
   JRec(<<[key |-> <<"k">>, value |-> JBool(TRUE)]>>)}

\* the objects of at most MaxEntries properties: a key occurs once
Metadatas ==
  {JRec(en) : en \in
     {s \in SeqsUpTo([key : MetaKeys, value : MetaValues], MaxEntries) :
        \A i, j \in 1..Len(s) : s[i].key = s[j].key => i = j}}

ExampleSubject == JText(<<"H", "i", " ", "<", "t", "h", "e", "r", "e", ">">>)

ExampleMessage == JText(<<" ", " ", "h", "e", "l", "l", "o", " ", " ">>)

ExampleMetadata ==
  JRec(<<[key |-> <<"a">>, value |-> JNum(1)],
         [key |-> <<"b">>, value |-> JNull]>>)

FormatBody(subject, message, metadata) ==
  Parsed(JObj(("subject" :> subject) @@ ("message" :> message)
              @@ ("metadata" :> metadata)))

FormatBodies ==
  {FormatBody(s, ExampleMessage, ExampleMetadata) :
     s \in Texts \cup {JUndef, JNull, JNum(7), ExampleSubject}}
  \cup {FormatBody(ExampleSubject, m, ExampleMetadata) :
          m \in Texts \cup {JUndef, JNum(7)}}
  \cup {FormatBody(s, ExampleMessage, md) :
          s \in {JUndef, ExampleSubject},
          md \in Metadatas \cup {JUndef, JNull, JNum(7), JText(<<"a">>),
                                 JArr(<<JNum(5), JNull, JText(<<">">>)>>)}}

InitFormat ==
  /\ env = NoEnv
  /\ request \in [method : {"POST"}, path : {"/notify"},
                  headers : Headers({None}, {None}, {None}, {None}),
                  body : FormatBodies]
  /\ Idle

\* execute's formatMessage(payload) on the payload handleNotification builds
CallFormatMessage ==
  /\ pc = "idle"
  /\ pc' = "returned"
  /\ ret' = formatMessage([message |-> JGet(request.body.json, "message"),
                           subject |-> JGet(request.body.json, "subject"),
                           metadata |-> JGet(request.body.json, "metadata")])
  /\ UNCHANGED <<env, request, response, trace, verifyCalls, sendCalls,
                 responses, outbound, verifyReply, sendReply>>

NextFormat == CallFormatMessage

SpecFormat == InitFormat /\ [][NextFormat]_vars

(***************************************************************************)
(* Vocabulary of the properties                                            *)
(***************************************************************************)
Range(seq) == {seq[i] : i \in 1..Len(seq)}

\* the events of evs occur in tr in that order
InOrder(tr, evs) ==
  \E pos \in [1..Len(evs) -> 1..Len(tr)] :
    /\ \A i \in 1..Len(evs) : tr[pos[i]] = evs[i]
    /\ \A i \in 1..(Len(evs) - 1) : pos[i] < pos[i + 1]

IsNotifyPost == request.method = "POST" /\ request.path \in NotifyPaths

\* no key is configured, or the configured key is supplied as X-API-Key, or
\* as Authorization: Bearer <key> with no X-API-Key
KeyAccepted ==
  \/ ~Truthy(env.API_KEY)
  \/ request.headers.XApiKey = env.API_KEY
  \/ /\ ~Truthy(request.headers.XApiKey)
     /\ request.headers.Authorization = Some(BearerPrefix \o env.API_KEY.v)

\* the body is JSON and property k of it is a non-empty value
HasField(k) ==
  /\ request.body.parses
  /\ request.body.json.t = "object"
  /\ k \in DOMAIN request.body.json.f
  /\ request.body.json.f[k] \notin {JNull, JStr(""), JText(<<>>), JNum(0)}

BodyValid == HasField("turnstile_token") /\ HasField("message")

SecretConfigured == Truthy(env.TURNSTILE_SECRET_KEY)

\* the siteverify reply is JSON with success true
VerifierSucceeded ==
  /\ verifyReply.kind = "json"
  /\ verifyReply.data.t = "object"
  /\ "success" \in DOMAIN verifyReply.data.f
  /\ verifyReply.data.f["success"] = JBool(TRUE)

SenderConfigured ==
  Truthy(env.TELEGRAM_BOT_TOKEN) /\ Truthy(env.TELEGRAM_CHAT_ID)

\* the sendMessage reply has an HTTP success status and ok true
ProviderAccepted ==
  /\ sendReply.kind = "reply"
  /\ sendReply.ok
  /\ sendReply.data.t = "object"
  /\ "ok" \in DOMAIN sendReply.data.f
  /\ sendReply.data.f["ok"] = JBool(TRUE)

\* every step up to and including the send completed without error
PipelineCompleted ==
  /\ IsNotifyPost
  /\ KeyAccepted
  /\ BodyValid
  /\ SecretConfigured
  /\ VerifierSucceeded
  /\ SenderConfigured
  /\ ProviderAccepted

IsErrorEnvelope(resp) ==
  /\ IsEnvelope(resp.body)
  /\ ~resp.body.success
  /\ resp.body.error = resp.body.message

IsSuccessEnvelope(resp) == IsEnvelope(resp.body) /\ resp.body.success

(***************************************************************************)
(* C1: a send call is issued only after the gate succeeded and the         *)
(* verification call returned success, in that order; when the gate or the *)
(* verifier fails the request ends with an error envelope and no send call.*)
(***************************************************************************)
C1_SendOnlyAfterGateAndVerify ==
  /\ sendCalls > 0 =>
       /\ IsNotifyPost
       /\ KeyAccepted
       /\ verifyCalls = 1
       /\ VerifierSucceeded
       /\ InOrder(trace, <<"gate_ok", "verify_call", "verify_ok", "send_call">>)
  /\ (/\ pc = "done"
      /\ IsNotifyPost
      /\ \/ ~KeyAccepted
         \/ verifyReply.kind # "none" /\ ~VerifierSucceeded
         \/ KeyAccepted /\ BodyValid /\ ~SecretConfigured) =>
       /\ IsErrorEnvelope(response)
       /\ sendCalls = 0

\* a send call was issued for a request that had to present the API key
C1_Witness ==
  /\ sendCalls = 1
  /\ Truthy(env.API_KEY)
  /\ VerifierSucceeded
  /\ pc = "sending"

(***************************************************************************)
(* C2 as stated: every request to a notify path returns an envelope, with  *)
(* success=true and status 200 iff the whole pipeline completed, and with  *)
(* success=false and a non-200 status otherwise.                           *)
(***************************************************************************)
C2_EveryNotifyRequestGetsEnvelope ==
  (pc = "done" /\ request.path \in NotifyPaths) =>
    /\ IsEnvelope(response.body)
    /\ (response.body.success /\ response.status = 200) <=> PipelineCompleted
    /\ ~PipelineCompleted => (~response.body.success /\ response.status # 200)

(***************************************************************************)
(* C2 amended: every request to a notify path other than a preflight       *)
(* returns an envelope, with success=true and status 200 iff the whole     *)
(* pipeline completed and success=false with a non-200 status otherwise; a *)
(* preflight (OPTIONS) returns 204 with no envelope.                       *)
(***************************************************************************)
C2_SuccessIffPipelineCompleted ==
  (pc = "done" /\ request.path \in NotifyPaths) =>
    IF request.method = "OPTIONS"
    THEN response.status = 204 /\ response.body = NoBody
    ELSE /\ IsEnvelope(response.body)
         /\ (response.body.success /\ response.status = 200) <=> PipelineCompleted
         /\ ~PipelineCompleted =>
              (~response.body.success /\ response.status # 200)

\* the pipeline completed and the success envelope was returned
C2_Witness ==
  /\ pc = "done"
  /\ PipelineCompleted
  /\ response.status = 200
  /\ response.body.message = "Notification sent successfully"

(***************************************************************************)
(* C3: the status of a POST to a notify path is that of the first failing  *)
(* step in the order gate (401), body validation (400), verification       *)
(* (403), sender configuration and send (500), and 200 when none fails.    *)
(***************************************************************************)
ExpectedStatus ==
  IF ~KeyAccepted THEN 401
  ELSE IF ~BodyValid THEN 400
  ELSE IF ~SecretConfigured \/ ~VerifierSucceeded THEN 403
  ELSE IF ~SenderConfigured \/ ~ProviderAccepted THEN 500
  ELSE 200

C3_StatusOfFirstFailingStep ==
  (pc = "done" /\ IsNotifyPost) => response.status = ExpectedStatus

\* the same, for every body but the JSON value null
C3_StatusOfFirstFailingStepNonNull ==
  (pc = "done" /\ IsNotifyPost /\ request.body # Parsed(JNull)) =>
    response.status = ExpectedStatus

(***************************************************************************)
(* C4: a POST to a notify path that passes the gate with a body that is    *)
(* not JSON, or is any JSON value lacking a non-empty turnstile_token or   *)
(* message, gets a 400 error envelope and makes no outbound call.          *)
(***************************************************************************)
C4_BadBodyGets400 ==
  (IsNotifyPost /\ KeyAccepted /\ ~BodyValid) =>
    /\ verifyCalls = 0
    /\ sendCalls = 0
    /\ pc = "done" => (response.status = 400 /\ IsErrorEnvelope(response))

\* the same, for every body but the JSON value null
C4_BadBodyGets400NonNull ==
  (IsNotifyPost /\ KeyAccepted /\ ~BodyValid /\ request.body # Parsed(JNull)) =>
    /\ verifyCalls = 0
    /\ sendCalls = 0
    /\ pc = "done" => (response.status = 400 /\ IsErrorEnvelope(response))

(***************************************************************************)
(* C5: every request, whatever the outbound calls do, ends with exactly    *)
(* one response; a failure is a JSON error envelope with a 4xx/5xx status, *)
(* and an exception not handled at its step yields the 500 envelope        *)
(* "Internal server error".                                                *)
(***************************************************************************)
Statuses == {200, 204, 400, 401, 403, 404, 405, 500}

\* property access on the null body throws inside handleNotification
UnhandledException ==
  IsNotifyPost /\ KeyAccepted /\ request.body = Parsed(JNull)

C5_ResponseWellFormed ==
  /\ responses <= 1
  /\ pc # "done" => responses = 0
  /\ pc = "done" =>
       /\ responses = 1
       /\ response.status \in Statuses
       /\ response.status = 204 => response.body = NoBody
       /\ response.status = 200 => IsSuccessEnvelope(response)
       /\ response.status >= 400 =>
            /\ IsErrorEnvelope(response)
            /\ response.headers["Content-Type"] = "application/json"
       /\ UnhandledException =>
            /\ response.status = 500
            /\ IsErrorEnvelope(response)
            /\ response.body.message = "Internal server error"

C5_ExactlyOneResponse ==
  /\ []C5_ResponseWellFormed
  /\ <>(pc = "done" /\ responses = 1)

\* an exception escaped handleNotification and the catch-all answered
C5_Witness ==
  /\ pc = "done"
  /\ UnhandledException
  /\ "caught" \in Range(trace)
  /\ response.status = 500

(***************************************************************************)
(* C6: every response, on every branch including the catch-all 500,        *)
(* carries the four CORS headers, Access-Control-Allow-Origin being the    *)
(* computed allowed origin.                                                *)
(***************************************************************************)
HasCorsHeaders(resp) ==
  /\ CorsHeaderNames \subseteq DOMAIN resp.headers
  /\ resp.headers["Access-Control-Allow-Origin"]
       = getAllowedOrigin(request.headers, env)
  /\ resp.headers["Access-Control-Allow-Methods"] = "GET, POST, OPTIONS"
  /\ resp.headers["Access-Control-Allow-Headers"]
       = "Content-Type, X-API-Key, Authorization"
  /\ resp.headers["Access-Control-Max-Age"] = "86400"

C6_EveryResponseHasCors == pc = "done" => HasCorsHeaders(response)

\* the same, for every response but the catch-all's
C6_EveryRoutedResponseHasCors ==
  (pc = "done" /\ "caught" \notin Range(trace)) => HasCorsHeaders(response)

(***************************************************************************)
(* C7: OPTIONS on any path gets 204 with no body and runs neither gate,    *)
(* verifier nor sender; another non-POST method on a notify path gets 405  *)
(* without gate or outbound call; a non-OPTIONS request on a path other    *)
(* than /, /health, /notify, /api/notify gets 404.                         *)
(***************************************************************************)
GateEvents == {"gate_ok", "gate_fail"}

NoPipeline ==
  /\ pc \in {"idle", "done"}
  /\ verifyCalls = 0
  /\ sendCalls = 0
  /\ Range(trace) \cap GateEvents = {}

C7_RouterDispatch ==
  /\ request.method = "OPTIONS" =>
       /\ NoPipeline
       /\ pc = "done" => (response.status = 204 /\ response.body = NoBody)
  /\ (request.method \notin {"OPTIONS", "POST"} /\ request.path \in NotifyPaths) =>
       /\ NoPipeline
       /\ pc = "done" => (response.status = 405 /\ IsErrorEnvelope(response))
  /\ (request.method # "OPTIONS"
      /\ request.path \notin (HealthPaths \cup NotifyPaths)) =>
       /\ NoPipeline
       /\ pc = "done" => (response.status = 404 /\ IsErrorEnvelope(response))

\* a preflight on a notify path was answered although the gate would reject it
C7_Witness ==
  /\ pc = "done"
  /\ request.method = "OPTIONS"
  /\ request.path \in NotifyPaths
  /\ ~KeyAccepted
  /\ response.status = 204

(***************************************************************************)
(* Vocabulary of the gate's properties                                     *)
(***************************************************************************)
KeyConfigured == Truthy(env.API_KEY)

\* X-API-Key: k
SuppliedAsXApiKey(k) == request.headers.XApiKey = Some(k)

\* Authorization: Bearer k
SuppliedAsBearer(k) == request.headers.Authorization = Some(BearerPrefix \o k)

WrongKeys == KeyStrings \ {<<>>, env.API_KEY.v}

NoXApiKey == request.headers.XApiKey \in {None, Some(<<>>)}

\* neither header yields a value
NoKeySupplied ==
  /\ NoXApiKey
  /\ request.headers.Authorization \in {None, Some(<<>>), Some(BearerPrefix)}

GateSuccess == [success |-> TRUE]

GateMissingKey == [success |-> FALSE, error |-> MissingKeyMsg]

GateInvalidKey == [success |-> FALSE, error |-> InvalidKeyMsg]

(***************************************************************************)
(* C8 as stated: with a key configured the gate fails with invalid-key     *)
(* when a wrong value is supplied in any header, and succeeds when the     *)
(* matching value is supplied via either header form, for every            *)
(* combination of the two headers; it succeeds when no key is configured   *)
(* and fails with missing-key when neither header yields a value.          *)
(***************************************************************************)
C8_GateForEveryHeaderCombination ==
  pc = "returned" =>
    /\ ~KeyConfigured => ret = GateSuccess
    /\ (KeyConfigured /\ NoKeySupplied) => ret = GateMissingKey
    /\ (KeyConfigured
        /\ \E w \in WrongKeys : SuppliedAsXApiKey(w) \/ SuppliedAsBearer(w)) =>
         ret = GateInvalidKey
    /\ (KeyConfigured
        /\ (SuppliedAsXApiKey(env.API_KEY.v) \/ SuppliedAsBearer(env.API_KEY.v))) =>
         ret = GateSuccess

(***************************************************************************)
(* C8 amended: the gate succeeds for every header combination when no key  *)
(* is configured; with a key configured it fails with missing-key when     *)
(* neither header yields a value; a present, non-empty X-API-Key alone     *)
(* decides (invalid-key when wrong, success when matching, whatever        *)
(* Authorization holds); with X-API-Key absent or empty, Authorization:    *)
(* Bearer <value> decides (invalid-key when wrong, success when matching). *)
(***************************************************************************)
C8_GateByConsultedHeader ==
  pc = "returned" =>
    /\ ~KeyConfigured => ret = GateSuccess
    /\ (KeyConfigured /\ NoKeySupplied) => ret = GateMissingKey
    /\ (KeyConfigured /\ \E w \in WrongKeys : SuppliedAsXApiKey(w)) =>
         ret = GateInvalidKey
    /\ (KeyConfigured /\ SuppliedAsXApiKey(env.API_KEY.v)) => ret = GateSuccess
    /\ (KeyConfigured /\ NoXApiKey /\ \E w \in WrongKeys : SuppliedAsBearer(w)) =>
         ret = GateInvalidKey
    /\ (KeyConfigured /\ NoXApiKey /\ SuppliedAsBearer(env.API_KEY.v)) =>
         ret = GateSuccess

\* a wrong X-API-Key beside the matching bearer key was rejected
C8_Witness ==
  /\ pc = "returned"
  /\ KeyConfigured
  /\ \E w \in WrongKeys : SuppliedAsXApiKey(w)
  /\ SuppliedAsBearer(env.API_KEY.v)
  /\ ret = GateInvalidKey

(***************************************************************************)
(* Vocabulary of the allowed origin's properties                           *)
(***************************************************************************)
Entries == AllowedOrigins(env)

CommaCount(s) == Cardinality({i \in 1..Len(s) : s[i] = ","})

\* the allow-list is the comma-separated entries, trimmed; ["*"] by default
EntriesAreSplitAndTrimmed ==
  IF env.ALLOWED_ORIGINS.some
  THEN /\ Len(Entries) = CommaCount(env.ALLOWED_ORIGINS.v) + 1
       /\ \A i \in 1..Len(Entries) :
            /\ "," \notin Range(Entries[i])
            /\ Entries[i] # <<>> =>
                 (Head(Entries[i]) # " " /\ Entries[i][Len(Entries[i])] # " ")
            /\ IndexOf(env.ALLOWED_ORIGINS.v, Entries[i]) > 0 \/ Entries[i] = <<>>
  ELSE Entries = <<Star>>

\* the request's Origin, "*" when absent or empty
OriginOrStar ==
  IF request.headers.Origin \in {None, Some(<<>>)} THEN Star
  ELSE request.headers.Origin.v

\* the list has an entry that is not empty
ListNonEmpty == \E i \in 1..Len(Entries) : Entries[i] # <<>>

(***************************************************************************)
(* C9 as stated: the allowed origin is "*" if the allow-list contains "*", *)
(* else the request's Origin if it is an entry, else the first configured  *)
(* origin, "*" being returned only if the list is empty; so with a         *)
(* non-empty list without "*" the result is always an entry of the list.   *)
(***************************************************************************)
C9_ResultIsEntryOfNonEmptyList ==
  pc = "returned" =>
    /\ ret = IF Includes(Entries, Star) THEN Star
             ELSE IF Includes(Entries, OriginOrStar) THEN OriginOrStar
             ELSE IF ListNonEmpty THEN Entries[1]
             ELSE Star
    /\ (ListNonEmpty /\ ~Includes(Entries, Star)) => Includes(Entries, ret)

(***************************************************************************)
(* C9 amended: the allowed origin is "*" if the allow-list (comma-         *)
(* separated, entries trimmed, ["*"] when unconfigured) contains "*", else *)
(* the request's Origin (taken as "*" when absent or empty) if it is an    *)
(* entry, else the first entry of the list, or "*" if that first entry is  *)
(* empty; so when the list has no "*" and its first entry is non-empty the *)
(* result is always an entry of the list.                                  *)
(***************************************************************************)
C9_AllowedOrigin ==
  pc = "returned" =>
    /\ EntriesAreSplitAndTrimmed
    /\ Includes(Entries, Star) => ret = Star
    /\ (~Includes(Entries, Star) /\ Includes(Entries, OriginOrStar)) =>
         ret = OriginOrStar
    /\ (~Includes(Entries, Star) /\ ~Includes(Entries, OriginOrStar)) =>
         ret = IF Entries[1] # <<>> THEN Entries[1] ELSE Star
    /\ (~Includes(Entries, Star) /\ Entries[1] # <<>>) => Includes(Entries, ret)

\* the first entry is empty, a later one is not, and "*" was returned
C9_Witness ==
  /\ pc = "returned"
  /\ ~Includes(Entries, Star)
  /\ Entries[1] = <<>>
  /\ ListNonEmpty
  /\ ret = Star

(***************************************************************************)
(* C10: a request issues at most one verification call and at most one     *)
(* send call; no verification call without a configured secret or with an  *)
(* empty token; no send call without bot token or chat id; an external     *)
(* failure is reported once, in the response to the request.               *)
(***************************************************************************)
C10_NoRetriesNoWastedCalls ==
  /\ verifyCalls <= 1
  /\ sendCalls <= 1
  /\ (~SecretConfigured \/ ~HasField("turnstile_token")) => verifyCalls = 0
  /\ ~SenderConfigured => sendCalls = 0
  /\ verifyReply.kind # "none" => (verifyCalls = 1 /\ pc # "verifying")
  /\ sendReply.kind # "none" => (sendCalls = 1 /\ pc = "done")
  /\ (verifyReply.kind # "none" /\ ~VerifierSucceeded) =>
       /\ pc = "done"
       /\ responses = 1
       /\ response.status = 403
       /\ IsErrorEnvelope(response)
       /\ sendCalls = 0
  /\ (sendReply.kind # "none" /\ ~ProviderAccepted) =>
       /\ responses = 1
       /\ response.status = 500
       /\ IsErrorEnvelope(response)

\* the verification call failed in transport and the failure was reported
C10_Witness ==
  /\ pc = "done"
  /\ verifyCalls = 1
  /\ verifyReply.kind = "throw"
  /\ response.status = 403
  /\ response.body.message = "fetch failed"

(***************************************************************************)
(* C11                                                                     *)
(***************************************************************************)
\* a credential is configured when it is bound to a non-empty string
Configured(o) == o.some /\ o.v # <<>>

\* the three facts about a configuration that a health report may show
CredentialFlags(e) ==
  [turnstile |-> Configured(e.TURNSTILE_SECRET_KEY),
   telegram |-> Configured(e.TELEGRAM_BOT_TOKEN) /\ Configured(e.TELEGRAM_CHAT_ID),
   apiKeyRequired |-> Configured(e.API_KEY)]

NoCredentialSet(e) ==
  /\ ~Configured(e.TURNSTILE_SECRET_KEY)
  /\ ~Configured(e.TELEGRAM_BOT_TOKEN)
  /\ ~Configured(e.TELEGRAM_CHAT_ID)
  /\ ~Configured(e.API_KEY)

\* C11: the health response has status 200 and its config shows exactly the
\* three booleans (verification secret configured; bot token and chat id both
\* configured; API key configured); any other configuration with the same
\* three booleans gets, at the same instant, the very same response, so no
\* credential value can be read from it; with no credential configured
\* config.telegram and config.apiKeyRequired are false.
C11_HealthShowsOnlyCredentialFlags ==
  pc = "returned" =>
    /\ ret.status = 200
    /\ ret.body.success = TRUE
    /\ ret.body.data.config = CredentialFlags(env)
    /\ \A e2 \in HealthEnvs :
         CredentialFlags(e2) = CredentialFlags(env)
           => handleHealthCheck(e2, ret.body.data.timestamp) = ret
    /\ NoCredentialSet(env) =>
         /\ ret.body.data.config.telegram = FALSE
         /\ ret.body.data.config.apiKeyRequired = FALSE

\* a health report for a configuration where only the bot token is bound and
\* the API key is bound to the empty string
C11_Witness ==
  /\ pc = "returned"
  /\ Configured(env.TELEGRAM_BOT_TOKEN)
  /\ ~Configured(env.TELEGRAM_CHAT_ID)
  /\ env.API_KEY = Some(<<>>)
  /\ ret.status = 200
  /\ ret.body.data.config.telegram = FALSE

(***************************************************************************)
(* C12                                                                     *)
(***************************************************************************)
FormatInput ==
  [subject |-> JGet(request.body.json, "subject"),
   message |-> JGet(request.body.json, "message"),
   metadata |-> JGet(request.body.json, "metadata")]

\* what one character becomes when &, < and > are escaped
EscapedChar(c) ==
  CASE c = "&" -> <<"&", "a", "m", "p", ";">>
    [] c = "<" -> <<"&", "l", "t", ";">>
    [] c = ">" -> <<"&", "g", "t", ";">>
    [] OTHER -> <<c>>

RECURSIVE Escaped(_)
Escaped(s) == IF s = <<>> THEN <<>> ELSE EscapedChar(Head(s)) \o Escaped(Tail(s))

\* a text that is present and not blank
NonBlank(x) == x.t = "string" /\ Trim(x.chars) # <<>>

\* the entries of the metadata: the properties of an object in insertion
\* order, the items of an array by index, none otherwise
EntriesOf(md) ==
  IF md.t = "object" THEN md.entries
  ELSE IF md.t = "array"
  THEN [i \in 1..Len(md.items) |->
          [key |-> NumberToString(i - 1), value |-> md.items[i]]]
  ELSE <<>>

Lines(fragments) == Join(fragments, <<"\n">>)

SubjectFragment(p) ==
  IF NonBlank(p.subject)
  THEN <<<<"<", "b", ">">> \o Escaped(Trim(p.subject.chars))
         \o <<"<", "/", "b", ">">>>>
  ELSE <<>>

MessageFragment(p) ==
  IF NonBlank(p.message) THEN <<Escaped(Trim(p.message.chars))>> ELSE <<>>

\* a value as the statement shows it: a string directly
ValueUsedDirectly(v) ==
  CASE v.t = "string" -> v.chars
    [] v.t = "number" -> NumberToString(v.num)
    [] v.t = "boolean" -> BooleanToString(v.bool)
    [] OTHER -> JsonStringify(v)

\* key: value for every entry but the null and undefined ones
KeyValueFragments(md) ==
  LET kept == SelectSeq(EntriesOf(md), LAMBDA en : en.value.t \notin {"null", "undefined"})
  IN [i \in 1..Len(kept) |->
        Escaped(kept[i].key) \o <<":", " ">> \o Escaped(ValueUsedDirectly(kept[i].value))]

ValueTrimmed(v) ==
  CASE v.t = "string" -> Trim(v.chars)
    [] v.t = "number" -> NumberToString(v.num)
    [] v.t = "boolean" -> BooleanToString(v.bool)
    [] OTHER -> JsonStringify(v)

\* the null and undefined entries and the blank strings are skipped
Skipped(v) == v.t \in {"null", "undefined"} \/ ValueTrimmed(v) = <<>>

\* <b>key:</b> value for every entry that is not skipped
BoldKeyFragments(md) ==
  LET kept == SelectSeq(EntriesOf(md), LAMBDA en : ~Skipped(en.value))
  IN [i \in 1..Len(kept) |->
        <<"<", "b", ">">> \o Escaped(kept[i].key) \o <<":", "<", "/", "b", ">", " ">>
        \o Escaped(ValueTrimmed(kept[i].value))]

ExampleOutput ==
  <<"<", "b", ">", "H", "i", " ", "&", "l", "t", ";", "t", "h", "e", "r",
  "e", "&", "g", "t", ";", "<", "/", "b", ">", "\n", "h", "e", "l", "l",
  "o", "\n", "<", "b", ">", "a", ":", "<", "/", "b", ">", " ", "1">>

SenderReturned == sendReply.kind # "none"

\* the reply is a JSON object sent with an HTTP error status or without a true
\* ok field
ProviderRefused ==
  /\ sendReply.kind = "reply"
  /\ sendReply.data.t = "object"
  /\ ~(sendReply.ok /\ JGet(sendReply.data, "ok") = JBool(TRUE))

\* the call threw, or reading the reply as an object did (its JSON is null)
SenderException ==
  \/ sendReply.kind = "throw"
  \/ sendReply.kind = "reply" /\ sendReply.data.t = "null"

VerifierReturned == verifyReply.kind # "none" /\ sendReply.kind = "none"

VerifierReplyCodes ==
  IF "error-codes" \in DOMAIN verifyReply.data.f
  THEN verifyReply.data.f["error-codes"].items
  ELSE <<>>

C15_ComparatorExaminesEveryPosition ==
  pc = "returned" =>
    /\ ret.value <=> (CompareA = CompareB)
    /\ ret.value = secureCompare(CompareA, CompareB)
    /\ Len(CompareA) # Len(CompareB) => (ret.value = FALSE /\ trace = <<>>)
    /\ Len(CompareA) = Len(CompareB) =>
         /\ trace = [i \in 1..Len(CompareA) |-> i - 1]
         /\ ret.value <=> \A i \in 1..Len(CompareA) : CompareA[i] = CompareB[i]

\* two keys of the same length that differ in their first character: every
\* position was read all the same
C15_Witness ==
  /\ pc = "returned"
  /\ Len(CompareA) = MaxKeyLen
  /\ Len(CompareB) = MaxKeyLen
  /\ CompareA[1] # CompareB[1]
  /\ Len(trace) = MaxKeyLen
  /\ ret.value = FALSE

(***************************************************************************)
(* C16                                                                     *)
(***************************************************************************)
\* what the gate answers once c is the candidate key
GateOutcome(c) ==
  IF c = <<>> THEN GateMissingKey
  ELSE IF c = env.API_KEY.v THEN GateSuccess
  ELSE GateInvalidKey

AuthorizationIs(s) == request.headers.Authorization = Some(s)

\* C16: with a key configured, a present and non-empty X-API-Key is the
\* candidate and Authorization is ignored: the answer is the same whatever
\* Authorization holds.  With X-API-Key absent or empty the candidate is the
\* Authorization value with the first occurrence of "Bearer " removed,
\* wherever it stands and only the first one; so a value without the prefix
\* is used as it is and accepted when it equals the key, and an absent
\* Authorization, an empty one and exactly "Bearer " give missing-key.
C16_CandidateKeySelection ==
  (pc = "returned" /\ KeyConfigured) =>
    /\ ~NoXApiKey =>
         /\ ret = GateOutcome(request.headers.XApiKey.v)
         /\ \A a \in GateAuthorizations :
              validateApiKey([request.headers EXCEPT !.Authorization = a], env) = ret
    /\ NoXApiKey =>
         /\ request.headers.Authorization = None => ret = GateMissingKey
         /\ AuthorizationIs(BearerPrefix) => ret = GateMissingKey
         /\ \A k \in KeyStrings : AuthorizationIs(k) => ret = GateOutcome(k)
         /\ \A k1 \in KeyPrefixes, k2 \in KeyStrings :
              AuthorizationIs(k1 \o BearerPrefix \o k2) => ret = GateOutcome(k1 \o k2)
         /\ \A k \in KeyStrings :
              AuthorizationIs(BearerPrefix \o BearerPrefix \o k)
                => ret = GateOutcome(BearerPrefix \o k)

\* an Authorization header that holds the key without the prefix was accepted
C16_Witness ==
  /\ pc = "returned"
  /\ KeyConfigured
  /\ NoXApiKey
  /\ AuthorizationIs(env.API_KEY.v)
  /\ ret = GateSuccess

(***************************************************************************)
(* C17                                                                     *)
(***************************************************************************)
\* a POST to a notify path that passed the gate and the body validation was
\* answered, with the bot token or the chat id missing
AnsweredWithoutSender ==
  /\ pc = "done"
  /\ IsNotifyPost
  /\ KeyAccepted
  /\ BodyValid
  /\ ~SenderConfigured

MisconfigurationReported ==
  /\ response.status = 500
  /\ IsErrorEnvelope(response)
  /\ response.body.message = "Telegram action not properly configured"

\* C17 as stated: such a request is answered after exactly one verification
\* call; with 500 "Telegram action not properly configured" and no send call
\* if the verification succeeded, with 403 if it failed.
C17_OneVerificationCallBeforeResponse ==
  AnsweredWithoutSender =>
    /\ verifyCalls = 1
    /\ sendCalls = 0
    /\ IF VerifierSucceeded THEN MisconfigurationReported
       ELSE response.status = 403

\* C17: such a request is answered after exactly one verification call when
\* the verification secret is configured, and after none when it is not; with
\* 500 "Telegram action not properly configured" if the verification
\* succeeded, with 403 if it failed, which it does without a call when the
\* secret is missing; no send call is issued.  The misconfiguration is
\* reported only after the verification call was issued and returned success.
C17_SenderCheckAfterVerification ==
  /\ AnsweredWithoutSender =>
       /\ verifyCalls = (IF SecretConfigured THEN 1 ELSE 0)
       /\ sendCalls = 0
       /\ IF VerifierSucceeded THEN MisconfigurationReported
          ELSE response.status = 403 /\ IsErrorEnvelope(response)
       /\ ~SecretConfigured =>
            response.body.message = "Turnstile secret key not configured"
  /\ (pc = "done" /\ MisconfigurationReported) =>
       /\ verifyCalls = 1
       /\ VerifierSucceeded
       /\ InOrder(trace, <<"verify_call", "verify_ok", "validate_fail">>)

\* the token was verified, and only then the missing chat id was reported
C17_Witness ==
  /\ AnsweredWithoutSender
  /\ Truthy(env.TELEGRAM_BOT_TOKEN)
  /\ VerifierSucceeded
  /\ verifyCalls = 1
  /\ sendCalls = 0
  /\ MisconfigurationReported

====
